---- MODULE Spec2Model ----
(***************************************************************************)
(* Model of src/modules/migration.js (AGE System world migration).         *)
(*                                                                         *)
(* Entities are loosely typed JavaScript records.  A record is modelled    *)
(* as a flat map from field paths (sequences of property names) to leaf    *)
(* values; the value "{}" at a path says that the field is a mapping,      *)
(* whose members are the paths below it.  JavaScript values are strings:   *)
(* "undefined", "false", "true", "0", "1", "6", "''" (the empty string),   *)
(* "will", ...  A patch (updateData) is a flat map from dotted keys, also  *)
(* written as paths, to values.                                            *)
(***************************************************************************)
EXTENDS Integers, Sequences, FiniteSets, TLC

(***************************************************************************)
(* JavaScript values and flat records                                      *)
(***************************************************************************)
Undefined == "undefined"
Obj == "{}"
Falsy == {"undefined", "null", "false", "0", "''"}
Truthy(v) == v \notin Falsy

EmptyMap == [p \in {} |-> Undefined]
Has(o, p) == p \in DOMAIN o
Get(o, p) == IF p \in DOMAIN o THEN o[p] ELSE Undefined
Put(o, p, v) == [q \in (DOMAIN o) \cup {p} |-> IF q = p THEN v ELSE o[q]]

IsPrefix(p, q) == Len(p) < Len(q) /\ SubSeq(q, 1, Len(p)) = p
Prefixes(p) == {SubSeq(p, 1, n) : n \in 1..(Len(p) - 1)}

\* delete o[p]: the field and everything below it
Delete(o, p) == [q \in {r \in DOMAIN o : r # p /\ ~IsPrefix(p, r)} |-> o[q]]

\* expandObject: dotted keys become nested mappings
expandObject(other) ==
  LET dom == (DOMAIN other) \cup UNION {Prefixes(p) : p \in DOMAIN other}
  IN  [q \in dom |-> IF q \in DOMAIN other THEN other[q] ELSE Obj]

\* mergeObject(original, other): other's values win; a mapping merges into a
\* mapping member by member, anything else is overwritten
mergeObject(original, other) ==
  LET tree == expandObject(other)
      kept == {q \in DOMAIN original :
                 /\ q \notin DOMAIN tree
                 /\ \A p \in DOMAIN tree : IsPrefix(p, q) => tree[p] = Obj}
  IN  [q \in (DOMAIN tree) \cup kept |->
         IF q \in DOMAIN tree THEN tree[q] ELSE original[q]]

\* A patch (updateData): the dotted keys, and the two list-valued keys the
\* code assigns, items (line 146) and tokens (line 177)
EmptyPatch ==
  [fields |-> EmptyMap, hasItems |-> FALSE, items |-> <<>>,
   hasTokens |-> FALSE, tokens |-> <<>>]

\* isObjectEmpty(updateData): the patch has no key
isObjectEmpty(upd) == DOMAIN upd.fields = {} /\ ~upd.hasItems /\ ~upd.hasTokens

\* mergeObject on an Actor-shaped record: the fields, and the items list
mergeRecord(r, upd) ==
  [f |-> mergeObject(r.f, upd.fields),
   hasItems |-> r.hasItems \/ upd.hasItems,
   items |-> IF upd.hasItems THEN upd.items ELSE r.items]

(***************************************************************************)
(* Low level migration utilities.  A helper takes and returns a call state *)
(* [st, rec, upd]: st is "ok" or the name of the exception thrown, rec the *)
(* record the helper was handed (helpers may mutate it) and upd the patch  *)
(* built so far.  An exception ends the function that called the helper.   *)
(***************************************************************************)
\* the one element of a singleton
Only(S) == CHOOSE x \in S : TRUE

Throw(s, e) == [s EXCEPT !.st = e]
Set(s, p, v) == [s EXCEPT !.upd.fields = Put(@, p, v)]
TypeOf(s) == Get(s.rec.f, <<"type">>)

\* line 206: the list the code tests against (spelling as in the code)
conditions ==
  <<"blinded", "deafened", "exhausted", "fatigued", "freefalling", "helpless",
    "hindred", "prone", "restrained", "injured", "wounded", "unconscious", "dying">>

CondPath == <<"data", "conditions">>

\* lines 223-230: the rebuild branch.  updateData["data.conditions"] = {} is
\* assigned, then the first iteration of the loop reads the undeclared name
\* udpateData, which throws a ReferenceError.
RebuildConditions(s) ==
  IF ~Truthy(Get(s.rec.f, CondPath))
    THEN IF Len(conditions) > 0
           THEN Throw(Set(s, CondPath, Obj), "ReferenceError")
           ELSE Set(s, CondPath, Obj)
    ELSE s

_addActorConditions(s) ==
  IF TypeOf(s) # "char" THEN s
  ELSE
    IF Truthy(Get(s.rec.f, CondPath))
      THEN IF Get(s.rec.f, CondPath) = Obj
             THEN IF \A i \in 1..Len(conditions) :
                       Has(s.rec.f, Append(CondPath, conditions[i]))
                    THEN s
                    ELSE RebuildConditions(s)
             ELSE RebuildConditions([s EXCEPT !.rec.f = Delete(@, CondPath)])
      ELSE RebuildConditions(s)

\* lines 243-244: customSideswipeDmg and customCollisionDmg are read as
\* variables, not as property names; neither is declared, so the first
\* statement throws a ReferenceError for every vehicle.
_addVehicleCustomDmg(s) ==
  IF TypeOf(s) # "vehicle" THEN s
  ELSE Throw(s, "ReferenceError")

SpeedExcluded == {"focus", "honorifics", "relationship", "membership", "stunts"}

\* _addItemModSpeed without the subtype test of line 255
_addItemModSpeedUngated(s) ==
  IF Get(s.rec.f, <<"data", "itemMods">>) \in {"undefined", "null"}
    THEN Throw(s, "TypeError")
  ELSE IF Truthy(Get(s.rec.f, <<"data", "itemMods", "speed">>)) THEN s
  ELSE Set(Set(Set(s,
         <<"data", "itemMods", "speed">>, Obj),
         <<"data", "itemMods", "speed", "isActive">>, "false"),
         <<"data", "itemMods", "speed", "value">>, "0")

\* lines 254-263
_addItemModSpeed(s) ==
  IF TypeOf(s) \in SpeedExcluded THEN s
  ELSE IF Get(s.rec.f, <<"data", "itemMods">>) \in {"undefined", "null"}
    THEN Throw(s, "TypeError")
  ELSE IF Truthy(Get(s.rec.f, <<"data", "itemMods", "speed">>)) THEN s
  ELSE Set(Set(Set(s,
         <<"data", "itemMods", "speed">>, Obj),
         <<"data", "itemMods", "speed", "isActive">>, "false"),
         <<"data", "itemMods", "speed", "value">>, "0")

_addExtraPowerData(s) ==
  IF TypeOf(s) # "power" THEN s
  ELSE IF Truthy(Get(s.rec.f, <<"data", "ablFatigue">>)) THEN s
  ELSE Set(Set(Set(Set(Set(Set(Set(Set(Set(Set(s,
         <<"data", "causeHealing">>, "false"),
         <<"data", "ablFatigue">>, "will"),
         <<"data", "hasTest">>, "false"),
         <<"data", "testAbl">>, "will"),
         <<"data", "testFocus">>, "''"),
         <<"data", "damageResisted">>, Obj),
         <<"data", "damageResisted", "nrDice">>, "1"),
         <<"data", "damageResisted", "diceType">>, "6"),
         <<"data", "damageResisted", "extraValue">>, "0"),
         <<"data", "damageResisted", "dmgAbl">>, "will")

_addItemValidResistedDmgAbl(s) ==
  IF TypeOf(s) # "power" THEN s
  ELSE IF /\ Truthy(Get(s.rec.f, <<"data", "damageResisted">>))
          /\ ~Truthy(Get(s.rec.f, <<"data", "damageResisted", "dmgAbl">>))
    THEN Set(s, <<"data", "damageResisted", "dmgAbl">>, "will")
  ELSE s

_addItemForceAbl(s) ==
  IF TypeOf(s) # "power" THEN s
  ELSE IF Truthy(Get(s.rec.f, <<"data", "itemForceAbl">>)) THEN s
  ELSE Set(s, <<"data", "itemForceAbl">>, "will")

(***************************************************************************)
(* Entity type migration helpers                                           *)
(***************************************************************************)
Call(rec) == [st |-> "ok", rec |-> rec, upd |-> EmptyPatch]

\* lines 157-164
migrateItemData(item) ==
  Only({IF s3.st # "ok" THEN s3 ELSE _addItemForceAbl(s3) :
    s3 \in {IF s2.st # "ok" THEN s2 ELSE _addExtraPowerData(s2) :
      s2 \in {IF s1.st # "ok" THEN s1 ELSE _addItemValidResistedDmgAbl(s1) :
        s1 \in {_addItemModSpeed(Call(item))}}}})

\* lines 134-146: the owned items
MigrateOwnedItems(s) ==
  IF ~s.rec.hasItems THEN s
  ELSE
    Only({
      IF \E i \in DOMAIN r : r[i].st # "ok"
        THEN Throw(s, r[CHOOSE i \in DOMAIN r :
                          r[i].st # "ok" /\ \A j \in 1..(i - 1) : r[j].st = "ok"].st)
      ELSE IF \E i \in DOMAIN r : ~isObjectEmpty(r[i].upd)
        THEN [s EXCEPT !.upd.hasItems = TRUE,
                       !.upd.items =
                          [i \in DOMAIN r |->
                             IF isObjectEmpty(r[i].upd) THEN s.rec.items[i]
                             ELSE [f |-> mergeObject(s.rec.items[i].f,
                                                     r[i].upd.fields)]]]
      ELSE s :
      r \in {[i \in 1..Len(s.rec.items) |-> migrateItemData(s.rec.items[i])]}})

\* lines 126-148
migrateActorData(actor) ==
  Only({IF s2.st # "ok" THEN s2 ELSE MigrateOwnedItems(s2) :
    s2 \in {IF s1.st # "ok" THEN s1 ELSE _addVehicleCustomDmg(s1) :
      s1 \in {_addActorConditions(Call(actor))}}})

\* An emptied override payload: t.actorData = {}
NoActorData == [f |-> EmptyMap, hasItems |-> FALSE, items |-> <<>>]

\* line 182-183: new Token(t).actor, the host's lookup of the token's actor
ResolvableActorIds == {"a1"}
TokenActor(t) == t.actorId \in ResolvableActorIds

\* MigrateToken without the actorLink test of line 178
MigrateTokenNoLinkTest(t) ==
  IF ~Truthy(t.actorId) \/ ~Truthy(Get(t.actorData.f, <<"data">>))
    THEN [st |-> "ok", t |-> [t EXCEPT !.actorData = NoActorData]]
  ELSE IF ~TokenActor(t)
    THEN [st |-> "ok", t |-> [t EXCEPT !.actorId = "null", !.actorData = NoActorData]]
  ELSE IF ~t.actorLink
    THEN Only({IF r.st # "ok" THEN [st |-> r.st, t |-> t]
               ELSE [st |-> "ok",
                     t |-> [t EXCEPT !.actorData = mergeRecord(r.rec, r.upd)]] :
               r \in {migrateActorData(t.actorData)}})
  ELSE [st |-> "ok", t |-> t]

\* lines 177-191: the transformation of one token; [st, t]
MigrateToken(t) ==
  IF ~Truthy(t.actorId) \/ t.actorLink \/ ~Truthy(Get(t.actorData.f, <<"data">>))
    THEN [st |-> "ok", t |-> [t EXCEPT !.actorData = NoActorData]]
  ELSE IF ~TokenActor(t)
    THEN [st |-> "ok", t |-> [t EXCEPT !.actorId = "null", !.actorData = NoActorData]]
  ELSE IF ~t.actorLink
    THEN Only({IF r.st # "ok" THEN [st |-> r.st, t |-> t]
               ELSE [st |-> "ok",
                     t |-> [t EXCEPT !.actorData = mergeRecord(r.rec, r.upd)]] :
               r \in {migrateActorData(t.actorData)}})
  ELSE [st |-> "ok", t |-> t]

migrateSceneData(scene) ==
  Only({
    IF \E i \in DOMAIN r : r[i].st # "ok"
      THEN Throw(Call(scene),
                 r[CHOOSE i \in DOMAIN r :
                     r[i].st # "ok" /\ \A j \in 1..(i - 1) : r[j].st = "ok"].st)
    ELSE [Call(scene) EXCEPT !.upd.hasTokens = TRUE,
                             !.upd.tokens = [i \in DOMAIN r |-> r[i].t]] :
    r \in {[i \in 1..Len(scene.tokens) |-> MigrateToken(scene.tokens[i])]}})

(***************************************************************************)
(* Records the patch functions are applied to                              *)
(***************************************************************************)
MaxOwned == 2
MaxTokens == 2

SeqsUpTo(S, n) == UNION {[1..k -> S] : k \in 0..n}

ItemTypes == SpeedExcluded \cup {"power", "weapon"}

ItemMods(m) ==
  CASE m = "absent" -> EmptyMap
    [] m = "empty" -> (<<"data", "itemMods">> :> Obj)
    [] m = "speed" -> (<<"data", "itemMods">> :> Obj)
                      @@ (<<"data", "itemMods", "speed">> :> Obj)
                      @@ (<<"data", "itemMods", "speed", "isActive">> :> "true")
                      @@ (<<"data", "itemMods", "speed", "value">> :> "2")

Leaf(p, v) == IF v = "absent" THEN EmptyMap ELSE (p :> v)

DamageResisted(d) ==
  CASE d = "absent" -> EmptyMap
    [] d = "noAbl" -> (<<"data", "damageResisted">> :> Obj)
                      @@ (<<"data", "damageResisted", "nrDice">> :> "2")
    [] d = "abl" -> (<<"data", "damageResisted">> :> Obj)
                    @@ (<<"data", "damageResisted", "nrDice">> :> "2")
                    @@ (<<"data", "damageResisted", "dmgAbl">> :> "dex")

Item(t, m, a, d, fa) ==
  [f |-> (<<"type">> :> t) @@ (<<"data">> :> Obj) @@ ItemMods(m)
         @@ Leaf(<<"data", "ablFatigue">>, a) @@ DamageResisted(d)
         @@ Leaf(<<"data", "itemForceAbl">>, fa)]

ItemInputs ==
  {Item(t, m, a, d, fa) : t \in ItemTypes, m \in {"absent", "empty", "speed"},
                          a \in {"absent", "''", "dex"},
                          d \in {"absent", "noAbl", "abl"},
                          fa \in {"absent", "dex"}}

\* owned items: a stale power, a power with no itemMods, a migrated power, a focus
OwnedPool ==
  {Item("power", "empty", "absent", "absent", "absent"),
   Item("power", "absent", "absent", "absent", "absent"),
   Item("power", "speed", "dex", "abl", "dex"),
   Item("focus", "empty", "absent", "absent", "absent")}

CondFlags(names) ==
  (CondPath :> Obj) @@ [p \in {Append(CondPath, c) : c \in names} |-> "false"]

CodeFlags == {conditions[i] : i \in 1..Len(conditions)}
SpecFlags == (CodeFlags \ {"hindred"}) \cup {"hindered"}

Conditions(c) ==
  CASE c = "absent" -> EmptyMap
    [] c = "string" -> (CondPath :> "yes")
    [] c = "false" -> (CondPath :> "false")
    [] c = "empty" -> (CondPath :> Obj)
    [] c = "partial" -> CondFlags({"blinded", "prone"})
    [] c = "complete" -> CondFlags(CodeFlags)
    [] c = "hindered" -> CondFlags(SpecFlags)

CondCases == {"absent", "string", "false", "empty", "partial", "complete", "hindered"}

Actor(t, c, sw, col, hasItems, items) ==
  [f |-> (<<"type">> :> t) @@ (<<"data">> :> Obj) @@ Conditions(c)
         @@ Leaf(<<"data", "customSideswipeDmg">>, sw)
         @@ Leaf(<<"data", "customCollisionDmg">>, col),
   hasItems |-> hasItems, items |-> items]

ActorTypes == {"char", "vehicle", "spaceship"}

ActorInputs ==
  {Actor(t, c, sw, col, FALSE, <<>>) :
     t \in ActorTypes, c \in CondCases, sw \in {"absent", "2"}, col \in {"absent", "2"}}
  \cup
  {Actor(t, c, "absent", "absent", TRUE, its) :
     t \in ActorTypes, c \in CondCases, its \in SeqsUpTo(OwnedPool, MaxOwned)}

\* override payloads of a token: none, one with no data member, plain
\* overrides, and overrides that carry an actor type
OverridePool ==
  {NoActorData,
   [f |-> (<<"name">> :> "Orc"), hasItems |-> FALSE, items |-> <<>>],
   [f |-> (<<"data">> :> Obj) @@ (<<"data", "health">> :> "2"),
    hasItems |-> FALSE, items |-> <<>>],
   [f |-> (<<"type">> :> "vehicle") @@ (<<"data">> :> Obj),
    hasItems |-> FALSE, items |-> <<>>],
   [f |-> (<<"data">> :> Obj),
    hasItems |-> TRUE,
    items |-> <<Item("power", "empty", "absent", "absent", "absent")>>]}

TokenPool ==
  [actorId : {"null", "a1", "gone"}, actorLink : BOOLEAN, actorData : OverridePool]

\* a scene's tokens, each with its _id
SceneOf(ts) == [tokens |-> [i \in 1..Len(ts) |->
                  [id |-> i, actorId |-> ts[i].actorId,
                   actorLink |-> ts[i].actorLink, actorData |-> ts[i].actorData]]]

SceneInputs == {SceneOf(ts) : ts \in SeqsUpTo(TokenPool, MaxTokens)}

(***************************************************************************)
(* The patch functions applied to one record: compute the patch, merge it  *)
(* into the record, compute the patch again.                               *)
(***************************************************************************)
VARIABLES pkind, input, rec, ph, res1, res2

\* The host's state and the position of migrateWorld in its code:
\*   world     game.actors / game.items / game.scenes, the records in memory
\*   packs     game.packs: [package, entity, locked, content]
\*   pc, idx   the loop migrateWorld is in and the index of its element
\*   ppc, eidx, content, wasLocked   the locals of migrateCompendium
\*   awaiting  the host call the run is suspended on (NoCallPending if none)
\*   inflight  the host calls issued and not yet completed
\*   settings  the systemMigrationVersion setting
\*   notices   the notifications shown
\* and what has been observed of the run:
\*   visited   the entities whose loop body was entered
\*   writes    the write calls issued, with whether their patch had a key
\*   errors    the entities whose failure was logged by console.error
\*   pk        per pack: its walk's status, its locked value and its content
\*             before the run, and the value the restoring configure call
\*             was issued with
\*   inOrder   every host call so far was issued at a position not before
\*             the position of the call before it (lastPos)
VARIABLES world, packs, pc, idx, ppc, eidx, content, wasLocked, awaiting,
          inflight, settings, notices, visited, writes, errors, pk, inOrder,
          lastPos

pvars == <<pkind, input, rec, ph, res1, res2>>
wvars == <<world, packs, pc, idx, ppc, eidx, content, wasLocked, awaiting,
           inflight, settings, notices, visited, writes, errors, pk, inOrder,
           lastPos>>
vars == <<pvars, wvars>>

NoCallPending ==
  [op |-> "none", tier |-> "none", i |-> 0, e |-> 0, upd |-> EmptyPatch, val |-> FALSE]

\* the world is not run while a single record is migrated
WorldIdle ==
  /\ world = [Actor |-> <<>>, Item |-> <<>>, Scene |-> <<>>]
  /\ packs = <<>> /\ pk = <<>>
  /\ pc = "idle" /\ idx = 0 /\ ppc = "none" /\ eidx = 0
  /\ content = <<>> /\ wasLocked = FALSE
  /\ awaiting = NoCallPending /\ inflight = {}
  /\ settings = "old" /\ notices = 0
  /\ visited = {} /\ writes = {} /\ errors = {}
  /\ inOrder = TRUE /\ lastPos = <<0, 0, 0>>

NoCall == [st |-> "none", upd |-> EmptyPatch]

Migrate(k, r) ==
  CASE k = "Actor" -> migrateActorData(r)
    [] k = "Item" -> migrateItemData(r)
    [] k = "Scene" -> migrateSceneData(r)

\* the host's merge of a patch into the record it was computed for
ApplyPatch(k, r, upd) ==
  CASE k = "Actor" -> mergeRecord(r, upd)
    [] k = "Item" -> [f |-> mergeObject(r.f, upd.fields)]
    [] k = "Scene" -> [tokens |-> IF upd.hasTokens THEN upd.tokens ELSE r.tokens]

InitPatch ==
  /\ \/ pkind = "Actor" /\ input \in ActorInputs
     \/ pkind = "Item" /\ input \in ItemInputs
     \/ pkind = "Scene" /\ input \in SceneInputs
  /\ rec = input
  /\ ph = "input"
  /\ res1 = NoCall
  /\ res2 = NoCall
  /\ WorldIdle

ComputePatch ==
  /\ ph = "input"
  /\ \E r \in {Migrate(pkind, rec)} :
       /\ res1' = [st |-> r.st, upd |-> r.upd]
       /\ rec' = r.rec
  /\ ph' = "computed"
  /\ UNCHANGED <<pkind, input, res2, wvars>>

MergePatch ==
  /\ ph = "computed"
  /\ res1.st = "ok"
  /\ rec' = ApplyPatch(pkind, rec, res1.upd)
  /\ ph' = "merged"
  /\ UNCHANGED <<pkind, input, res1, res2, wvars>>

Recompute ==
  /\ ph = "merged"
  /\ \E r \in {Migrate(pkind, rec)} :
       /\ res2' = [st |-> r.st, upd |-> r.upd]
       /\ rec' = r.rec
  /\ ph' = "recomputed"
  /\ UNCHANGED <<pkind, input, res1, wvars>>

NextPatch == ComputePatch \/ MergePatch \/ Recompute

SpecPatch == InitPatch /\ [][NextPatch]_vars

(***************************************************************************)
(* migrateWorld and migrateCompendium.  An awaited host call suspends the  *)
(* run until the host resolves or rejects it; a call that is not awaited   *)
(* stays in flight while the run goes on, and the host completes it only   *)
(* once the run is suspended or has ended (run to completion).             *)
(***************************************************************************)
MaxRecords == 2
MaxPacks == 1

Tiers == {"Actor", "Item", "Scene"}
TierNo(t) == CASE t = "Actor" -> 1 [] t = "Item" -> 2 [] t = "Scene" -> 3 [] OTHER -> 4
NextTierOf(t) == CASE t = "Actor" -> "Item" [] t = "Item" -> "Scene" [] t = "Scene" -> "Pack"

StalePower == Item("power", "empty", "absent", "absent", "absent")
MigratedPower == Item("power", "speed", "dex", "abl", "dex")
UnlinkedToken(ad) == [actorId |-> "a1", actorLink |-> FALSE, actorData |-> ad]

\* records of the three kinds: for each kind one whose patch has keys, one
\* whose patch is empty (but for scenes, whose patch always has the key
\* tokens) and one whose patch function throws
Pool(k) ==
  CASE k = "Actor" ->
         {Actor("vehicle", "absent", "absent", "absent", FALSE, <<>>),
          Actor("char", "complete", "absent", "absent", FALSE, <<>>),
          Actor("spaceship", "absent", "absent", "absent", TRUE, <<StalePower>>)}
    [] k = "Item" ->
         {StalePower, MigratedPower,
          Item("power", "absent", "absent", "absent", "absent")}
    [] k = "Scene" ->
         {SceneOf(<<>>),
          SceneOf(<<UnlinkedToken([f |-> (<<"type">> :> "vehicle") @@ (<<"data">> :> Obj),
                                   hasItems |-> FALSE, items |-> <<>>])>>)}
    [] OTHER -> {}

Supported == {"Actor", "Item", "Scene"}

\* the packs whose content has at most n entries
PackInputs(n) ==
  UNION {[package : {"world"}, entity : {k}, locked : BOOLEAN,
          content : SeqsUpTo(Pool(k), n)] : k \in Supported}
  \cup [package : {"world"}, entity : {"JournalEntry"}, locked : {TRUE},
        content : {<<>>}]
  \cup [package : {"age-system"}, entity : {"Item"}, locked : {TRUE},
        content : {<<>>}]

Eligible(p) == p.package = "world" /\ p.entity \in Supported

RECURSIVE Entries(_)
Entries(ps) == IF ps = <<>> THEN 0 ELSE Len(Head(ps).content) + Entries(Tail(ps))

\* a world of at most MaxRecords records and MaxPacks packs
Init ==
  /\ \E na \in 0..MaxRecords : \E ni \in 0..(MaxRecords - na) :
       \E ns \in 0..(MaxRecords - na - ni) :
         /\ world \in [Actor : [1..na -> Pool("Actor")],
                       Item : [1..ni -> Pool("Item")],
                       Scene : [1..ns -> Pool("Scene")]]
         /\ packs \in SeqsUpTo(PackInputs(MaxRecords - na - ni - ns), MaxPacks)
         /\ Entries(packs) <= MaxRecords - na - ni - ns
  /\ pk = [p \in 1..Len(packs) |->
             [stat |-> "pending", orig |-> packs[p].locked, issued |-> "none",
              given |-> packs[p].content]]
  /\ pc = "start" /\ idx = 1 /\ ppc = "none" /\ eidx = 0
  /\ content = <<>> /\ wasLocked = FALSE
  /\ awaiting = NoCallPending /\ inflight = {}
  /\ settings = "old" /\ notices = 0
  /\ visited = {} /\ writes = {} /\ errors = {}
  /\ inOrder = TRUE /\ lastPos = <<0, 0, 0>>
  /\ pkind = "none" /\ input = <<>> /\ rec = <<>> /\ ph = "idle"
  /\ res1 = NoCall /\ res2 = NoCall

Pos == <<TierNo(pc), idx, eidx>>
Before(a, b) ==
  \/ a[1] < b[1]
  \/ a[1] = b[1] /\ a[2] < b[2]
  \/ a[1] = b[1] /\ a[2] = b[2] /\ a[3] <= b[3]

HostCall(op, upd, val) ==
  [op |-> op, tier |-> pc, i |-> idx, e |-> eidx, upd |-> upd, val |-> val]

\* a host call is issued and awaited
Await(c) ==
  /\ inflight' = inflight \cup {c}
  /\ awaiting' = c
  /\ inOrder' = (inOrder /\ Before(lastPos, Pos))
  /\ lastPos' = Pos

\* a host call is issued and not awaited
Fire(c) ==
  /\ inflight' = inflight \cup {c}
  /\ inOrder' = (inOrder /\ Before(lastPos, Pos))
  /\ lastPos' = Pos

\* the awaited call completes
Resume ==
  /\ inflight' = inflight \ {awaiting}
  /\ awaiting' = NoCallPending

Running == awaiting = NoCallPending
Suspended == awaiting # NoCallPending

\* line 6
Start ==
  /\ pc = "start"
  /\ pc' = "Actor"
  /\ notices' = notices + 1
  /\ UNCHANGED <<pvars, world, packs, idx, ppc, eidx, content, wasLocked, awaiting,
                 inflight, settings, visited, writes, errors, pk, inOrder, lastPos>>

\* MigrateEntity with the try block left out: a failure leaves migrateWorld
MigrateEntityNoCatch ==
  /\ pc \in Tiers /\ Running /\ idx <= Len(world[pc])
  /\ \E r \in {Migrate(pc, world[pc][idx])} :
       /\ world' = [world EXCEPT ![pc][idx] = r.rec]
       /\ visited' = visited \cup {Pos}
       /\ IF r.st # "ok"
            THEN /\ pc' = "failed"
                 /\ UNCHANGED <<errors, idx, writes, awaiting, inflight, inOrder, lastPos>>
          ELSE IF isObjectEmpty(r.upd)
            THEN /\ idx' = idx + 1
                 /\ UNCHANGED <<pc, errors, writes, awaiting, inflight, inOrder, lastPos>>
          ELSE /\ writes' = writes \cup {[pos |-> Pos, nonempty |-> ~isObjectEmpty(r.upd)]}
               /\ Await(HostCall("update", r.upd, FALSE))
               /\ UNCHANGED <<pc, errors, idx>>
  /\ UNCHANGED <<pvars, packs, ppc, eidx, content, wasLocked, settings, notices, pk>>

\* lines 9-48: the body of one of the three loops, up to its await
MigrateEntity ==
  /\ pc \in Tiers /\ Running /\ idx <= Len(world[pc])
  /\ \E r \in {Migrate(pc, world[pc][idx])} :
       /\ world' = [world EXCEPT ![pc][idx] = r.rec]
       /\ visited' = visited \cup {Pos}
       /\ IF r.st # "ok"
            THEN /\ errors' = errors \cup {Pos}
                 /\ idx' = idx + 1
                 /\ UNCHANGED <<writes, awaiting, inflight, inOrder, lastPos>>
          ELSE IF isObjectEmpty(r.upd)
            THEN /\ idx' = idx + 1
                 /\ UNCHANGED <<errors, writes, awaiting, inflight, inOrder, lastPos>>
          ELSE /\ writes' = writes \cup {[pos |-> Pos, nonempty |-> ~isObjectEmpty(r.upd)]}
               /\ Await(HostCall("update", r.upd, FALSE))
               /\ UNCHANGED <<errors, idx>>
  /\ UNCHANGED <<pvars, packs, pc, ppc, eidx, content, wasLocked, settings, notices, pk>>

\* the host applies entity.update(updateData)
UpdateResolves ==
  /\ awaiting.op = "update"
  /\ world' = [world EXCEPT ![pc][idx] = ApplyPatch(pc, @, awaiting.upd)]
  /\ Resume
  /\ idx' = idx + 1
  /\ UNCHANGED <<pvars, packs, pc, ppc, eidx, content, wasLocked, settings, notices,
                 visited, writes, errors, pk, inOrder, lastPos>>

\* entity.update rejects: lines 16-19, 30-33, 44-47
UpdateRejects ==
  /\ awaiting.op = "update"
  /\ Resume
  /\ errors' = errors \cup {Pos}
  /\ idx' = idx + 1
  /\ UNCHANGED <<pvars, world, packs, pc, ppc, eidx, content, wasLocked, settings,
                 notices, visited, writes, pk, inOrder, lastPos>>

\* the end of one of the three loops
NextTier ==
  /\ pc \in Tiers /\ Running /\ idx > Len(world[pc])
  /\ pc' = NextTierOf(pc)
  /\ idx' = 1
  /\ UNCHANGED <<pvars, world, packs, ppc, eidx, content, wasLocked, awaiting, inflight,
                 settings, notices, visited, writes, errors, pk, inOrder, lastPos>>

InPacks == pc = "Pack" /\ idx <= Len(packs)

\* lines 52-53: a pack of another package or of another entity type
PackSkip ==
  /\ InPacks /\ Running /\ ppc = "none"
  /\ ~Eligible(packs[idx])
  /\ pk' = [pk EXCEPT ![idx].stat = "skipped"]
  /\ idx' = idx + 1
  /\ UNCHANGED <<pvars, world, packs, pc, ppc, eidx, content, wasLocked, awaiting,
                 inflight, settings, notices, visited, writes, errors, inOrder, lastPos>>

\* lines 70-75: wasLocked is read and the pack is asked to unlock
PackUnlock ==
  /\ InPacks /\ Running /\ ppc = "none"
  /\ Eligible(packs[idx])
  /\ wasLocked' = packs[idx].locked
  /\ Await(HostCall("configure", EmptyPatch, FALSE))
  /\ ppc' = "unlocking"
  /\ pk' = [pk EXCEPT ![idx].stat = "walking"]
  /\ UNCHANGED <<pvars, world, packs, pc, idx, eidx, content, settings, notices,
                 visited, writes, errors>>

\* line 78: the pack is unlocked and pack.migrate() is called
UnlockResolves ==
  /\ awaiting.op = "configure"
  /\ packs' = [packs EXCEPT ![idx].locked = awaiting.val]
  /\ inflight' = (inflight \ {awaiting}) \cup {HostCall("migrate", EmptyPatch, FALSE)}
  /\ awaiting' = HostCall("migrate", EmptyPatch, FALSE)
  /\ ppc' = "migrating"
  /\ UNCHANGED <<pvars, world, pc, idx, eidx, content, wasLocked, settings, notices,
                 visited, writes, errors, pk, inOrder, lastPos>>

\* line 79: pack.getContent() is called
MigrateResolves ==
  /\ awaiting.op = "migrate"
  /\ inflight' = (inflight \ {awaiting}) \cup {HostCall("getContent", EmptyPatch, FALSE)}
  /\ awaiting' = HostCall("getContent", EmptyPatch, FALSE)
  /\ ppc' = "fetching"
  /\ UNCHANGED <<pvars, world, packs, pc, idx, eidx, content, wasLocked, settings,
                 notices, visited, writes, errors, pk, inOrder, lastPos>>

\* lines 79-82: the content arrives and the loop over it starts
GetContentResolves ==
  /\ awaiting.op = "getContent"
  /\ Resume
  /\ content' = packs[idx].content
  /\ ppc' = "entries"
  /\ eidx' = 1
  /\ UNCHANGED <<pvars, world, packs, pc, idx, wasLocked, settings, notices, visited,
                 writes, errors, pk, inOrder, lastPos>>

\* lines 75-79 are in no try block: a rejection of configure, migrate or
\* getContent leaves migrateCompendium and migrateWorld as an exception
PackCallRejects ==
  /\ awaiting.op \in {"configure", "migrate", "getContent"}
  /\ Resume
  /\ pc' = "failed"
  /\ pk' = [pk EXCEPT ![idx].stat = "threw"]
  /\ UNCHANGED <<pvars, world, packs, idx, ppc, eidx, content, wasLocked, settings,
                 notices, visited, writes, errors, inOrder, lastPos>>

\* lines 82-109: the body of the loop over the content, up to its await
PackEntry ==
  /\ InPacks /\ Running /\ ppc = "entries" /\ eidx <= Len(content)
  /\ \E r \in {Migrate(packs[idx].entity, content[eidx])} :
       /\ content' = [content EXCEPT ![eidx] = r.rec]
       /\ visited' = visited \cup {Pos}
       /\ IF r.st # "ok"
            THEN /\ errors' = errors \cup {Pos}
                 /\ eidx' = eidx + 1
                 /\ UNCHANGED <<writes, awaiting, inflight, inOrder, lastPos>>
          ELSE IF isObjectEmpty(r.upd)
            THEN /\ eidx' = eidx + 1
                 /\ UNCHANGED <<errors, writes, awaiting, inflight, inOrder, lastPos>>
          ELSE /\ writes' = writes \cup {[pos |-> Pos, nonempty |-> ~isObjectEmpty(r.upd)]}
               /\ Await(HostCall("updateEntity", r.upd, FALSE))
               /\ UNCHANGED <<errors, eidx>>
  /\ UNCHANGED <<pvars, world, packs, pc, idx, ppc, wasLocked, settings, notices, pk>>

\* the host stores the entry that pack.updateEntity(updateData) names
UpdateEntityResolves ==
  /\ awaiting.op = "updateEntity"
  /\ packs' = [packs EXCEPT ![idx].content[eidx] =
                 ApplyPatch(packs[idx].entity, @, awaiting.upd)]
  /\ Resume
  /\ eidx' = eidx + 1
  /\ UNCHANGED <<pvars, world, pc, idx, ppc, content, wasLocked, settings, notices,
                 visited, writes, errors, pk, inOrder, lastPos>>

\* pack.updateEntity rejects: lines 105-108
UpdateEntityRejects ==
  /\ awaiting.op = "updateEntity"
  /\ Resume
  /\ errors' = errors \cup {Pos}
  /\ eidx' = eidx + 1
  /\ UNCHANGED <<pvars, world, packs, pc, idx, ppc, content, wasLocked, settings,
                 notices, visited, writes, pk, inOrder, lastPos>>

\* PackRestore configuring the pack with its current locked value, not with
\* the value read on entry
PackRestoreCurrent ==
  /\ InPacks /\ Running /\ ppc = "entries" /\ eidx > Len(content)
  /\ Fire(HostCall("restore", EmptyPatch, packs[idx].locked))
  /\ pk' = [pk EXCEPT ![idx].stat = "restoring",
                      ![idx].issued = IF packs[idx].locked THEN "locked" ELSE "unlocked"]
  /\ ppc' = "none"
  /\ eidx' = 0
  /\ idx' = idx + 1
  /\ UNCHANGED <<pvars, world, packs, pc, content, wasLocked, awaiting, settings,
                 notices, visited, writes, errors>>

\* lines 112-113: pack.configure({locked: wasLocked}) is called and not
\* awaited; migrateCompendium returns and migrateWorld takes the next pack
PackRestore ==
  /\ InPacks /\ Running /\ ppc = "entries" /\ eidx > Len(content)
  /\ Fire(HostCall("restore", EmptyPatch, wasLocked))
  /\ pk' = [pk EXCEPT ![idx].stat = "restoring",
                      ![idx].issued = IF wasLocked THEN "locked" ELSE "unlocked"]
  /\ ppc' = "none"
  /\ eidx' = 0
  /\ idx' = idx + 1
  /\ UNCHANGED <<pvars, world, packs, pc, content, wasLocked, awaiting, settings,
                 notices, visited, writes, errors>>

\* lines 58-59: the setting is written (not awaited) and the notice shown
Finish ==
  /\ pc = "Pack" /\ Running /\ idx > Len(packs)
  /\ Fire(HostCall("settings", EmptyPatch, FALSE))
  /\ notices' = notices + 1
  /\ pc' = "done"
  /\ UNCHANGED <<pvars, world, packs, idx, ppc, eidx, content, wasLocked, awaiting,
                 settings, visited, writes, errors, pk>>

\* the host completes a call the run did not wait for
Ended == pc \in {"done", "failed"}

RestoreCompletes ==
  /\ Suspended \/ Ended
  /\ \E c \in inflight :
       /\ c.op = "restore"
       /\ inflight' = inflight \ {c}
       /\ \/ /\ packs' = [packs EXCEPT ![c.i].locked = c.val]
             /\ pk' = [pk EXCEPT ![c.i].stat = "restored"]
          \/ /\ pk' = [pk EXCEPT ![c.i].stat = "restoreFailed"]
             /\ UNCHANGED packs
  /\ UNCHANGED <<pvars, world, pc, idx, ppc, eidx, content, wasLocked, awaiting,
                 settings, notices, visited, writes, errors, inOrder, lastPos>>

SettingsCompletes ==
  /\ Ended
  /\ \E c \in inflight :
       /\ c.op = "settings"
       /\ inflight' = inflight \ {c}
  /\ settings' = "current"
  /\ UNCHANGED <<pvars, world, packs, pc, idx, ppc, eidx, content, wasLocked, awaiting,
                 notices, visited, writes, errors, pk, inOrder, lastPos>>

Next ==
  \/ Start \/ MigrateEntity \/ UpdateResolves \/ UpdateRejects \/ NextTier
  \/ PackSkip \/ PackUnlock \/ UnlockResolves \/ MigrateResolves
  \/ GetContentResolves \/ PackCallRejects \/ PackEntry \/ UpdateEntityResolves
  \/ UpdateEntityRejects \/ PackRestore \/ Finish \/ RestoreCompletes
  \/ SettingsCompletes

Spec == Init /\ [][Next]_vars

(***************************************************************************)
(* Properties of the patch functions (checked under SpecPatch)             *)
(***************************************************************************)
InputType == Get(input.f, <<"type">>)
Computed == ph # "input"
SpeedPath == <<"data", "itemMods", "speed">>
SpeedKeys == {SpeedPath, Append(SpeedPath, "isActive"), Append(SpeedPath, "value")}
BundleKeys ==
  {<<"data", "causeHealing">>, <<"data", "ablFatigue">>, <<"data", "hasTest">>,
   <<"data", "testAbl">>, <<"data", "testFocus">>, <<"data", "damageResisted">>,
   <<"data", "damageResisted", "nrDice">>, <<"data", "damageResisted", "diceType">>,
   <<"data", "damageResisted", "extraValue">>, <<"data", "damageResisted", "dmgAbl">>}
PowerKeys == BundleKeys \cup {<<"data", "itemForceAbl">>}
SpeedDefault ==
  (SpeedPath :> Obj) @@ (Append(SpeedPath, "isActive") :> "false")
  @@ (Append(SpeedPath, "value") :> "0")
BundleDefault ==
  (<<"data", "causeHealing">> :> "false") @@ (<<"data", "ablFatigue">> :> "will")
  @@ (<<"data", "hasTest">> :> "false") @@ (<<"data", "testAbl">> :> "will")
  @@ (<<"data", "testFocus">> :> "''") @@ (<<"data", "damageResisted">> :> Obj)
  @@ (<<"data", "damageResisted", "nrDice">> :> "1")
  @@ (<<"data", "damageResisted", "diceType">> :> "6")
  @@ (<<"data", "damageResisted", "extraValue">> :> "0")
  @@ (<<"data", "damageResisted", "dmgAbl">> :> "will")
Carries(upd, m) == \A p \in DOMAIN m : Has(upd.fields, p) /\ upd.fields[p] = m[p]

\* C1: for every Actor and Item record, computing the patch, merging it into
\* the record and computing the patch again yields a patch with zero keys:
\* both computations return a patch and the second one is empty.
C1_Idempotence ==
  pkind \in {"Actor", "Item"} =>
    /\ Computed => res1.st = "ok"
    /\ ph = "recomputed" => res2.st = "ok" /\ isObjectEmpty(res2.upd)

\* The part of C1 the code keeps: when both computations return a patch, the
\* second patch has no key.
IdempotentWhenReturned ==
  (pkind \in {"Actor", "Item"} /\ ph = "recomputed" /\ res2.st = "ok")
    => isObjectEmpty(res2.upd)

\* C5: for every Actor of subtype char, after the patch of migrateActorData
\* is merged, data.conditions is a mapping that holds exactly the named
\* condition flags (hindered among them), each a boolean.
C5_ConditionsComplete ==
  (pkind = "Actor" /\ InputType = "char") =>
    /\ Computed => res1.st = "ok"
    /\ ph = "merged" =>
         /\ Get(rec.f, CondPath) = Obj
         /\ {p \in DOMAIN rec.f : IsPrefix(CondPath, p)}
              = {Append(CondPath, c) : c \in SpecFlags}
         /\ \A c \in SpecFlags : Get(rec.f, Append(CondPath, c)) \in {"false", "true"}

\* C6: for an Actor of subtype vehicle, migrateActorData returns a patch that
\* sets data.customSideswipeDmg to 1 if that field is absent and
\* data.customCollisionDmg to 1 if that field is absent.
C6_VehicleDefaults ==
  (pkind = "Actor" /\ InputType = "vehicle" /\ Computed) =>
    /\ res1.st = "ok"
    /\ ~Has(input.f, <<"data", "customSideswipeDmg">>)
         => Get(res1.upd.fields, <<"data", "customSideswipeDmg">>) = "1"
    /\ ~Has(input.f, <<"data", "customCollisionDmg">>)
         => Get(res1.upd.fields, <<"data", "customCollisionDmg">>) = "1"

\* C7: for an Item of subtype power, with or without an itemMods mapping,
\* migrateItemData returns normally, and its patch holds the speed default,
\* the ablFatigue bundle and itemForceAbl = "will", each if and only if the
\* field is absent from the item.
C7_PowerDefaults ==
  (pkind = "Item" /\ InputType = "power" /\ Computed) =>
    /\ res1.st = "ok"
    /\ IF Has(input.f, SpeedPath)
         THEN SpeedKeys \cap DOMAIN res1.upd.fields = {}
         ELSE Carries(res1.upd, SpeedDefault)
    /\ IF Has(input.f, <<"data", "ablFatigue">>)
         THEN (BundleKeys \ {<<"data", "damageResisted", "dmgAbl">>})
                 \cap DOMAIN res1.upd.fields = {}
         ELSE Carries(res1.upd, BundleDefault)
    /\ IF Has(input.f, <<"data", "itemForceAbl">>)
         THEN ~Has(res1.upd.fields, <<"data", "itemForceAbl">>)
         ELSE Get(res1.upd.fields, <<"data", "itemForceAbl">>) = "will"

\* C8: the patch migrateItemData returns holds no data.itemMods.speed key for
\* the subtypes focus, honorifics, relationship, membership and stunts (for
\* which the call returns, with an empty patch), and none of the power-only
\* keys for a subtype other than power.
C8_SubtypeGating ==
  (pkind = "Item" /\ Computed) =>
    /\ InputType \in SpeedExcluded =>
         /\ res1.st = "ok"
         /\ SpeedKeys \cap DOMAIN res1.upd.fields = {}
         /\ isObjectEmpty(res1.upd)
    /\ (InputType # "power" /\ res1.st = "ok") =>
         PowerKeys \cap DOMAIN res1.upd.fields = {}

C8_Witness ==
  /\ pkind = "Item" /\ ph = "computed" /\ res1.st = "ok"
  /\ input = Item("focus", "empty", "absent", "absent", "absent")
  /\ isObjectEmpty(res1.upd)

\* the clearing condition of C9 on a token of the scene
MustClear(t) ==
  t.actorLink \/ ~Truthy(t.actorId) \/ ~Truthy(Get(t.actorData.f, <<"data">>))

\* C9: in the patch migrateSceneData returns, the token list has one token
\* per token of the scene, in order, and every token that is actor-linked,
\* has no actorId or has no override payload has actorData = {}; a scene
\* with only such tokens always gets its patch.
C9_TokenClearing ==
  (pkind = "Scene" /\ Computed) =>
    /\ (\A i \in 1..Len(input.tokens) : MustClear(input.tokens[i])) => res1.st = "ok"
    /\ res1.st = "ok" =>
         /\ res1.upd.hasTokens
         /\ Len(res1.upd.tokens) = Len(input.tokens)
         /\ \A i \in 1..Len(input.tokens) :
              /\ res1.upd.tokens[i].id = input.tokens[i].id
              /\ MustClear(input.tokens[i])
                   => res1.upd.tokens[i].actorData = NoActorData

C9_Witness ==
  /\ pkind = "Scene" /\ ph = "computed" /\ res1.st = "ok"
  /\ \E i \in 1..Len(input.tokens) :
       /\ input.tokens[i].actorLink
       /\ input.tokens[i].actorId = "a1"
       /\ Truthy(Get(input.tokens[i].actorData.f, <<"data">>))
       /\ res1.upd.tokens[i].actorData = NoActorData

(***************************************************************************)
(* Properties of a run of migrateWorld (checked under Spec)                *)
(***************************************************************************)
\* what the data model asks of a record: a stale record lacks a target field
StaleItem(r) ==
  LET t == Get(r.f, <<"type">>) IN
  \/ t \notin SpeedExcluded /\ ~Has(r.f, SpeedPath)
  \/ /\ t = "power"
     /\ \/ ~Has(r.f, <<"data", "ablFatigue">>)
        \/ ~Has(r.f, <<"data", "itemForceAbl">>)
        \/ /\ Has(r.f, <<"data", "damageResisted">>)
           /\ ~Has(r.f, <<"data", "damageResisted", "dmgAbl">>)

StaleActor(r) ==
  LET t == Get(r.f, <<"type">>) IN
  \/ /\ t = "vehicle"
     /\ \/ ~Has(r.f, <<"data", "customSideswipeDmg">>)
        \/ ~Has(r.f, <<"data", "customCollisionDmg">>)
  \/ /\ t = "char"
     /\ \E c \in CodeFlags \cap SpecFlags : ~Has(r.f, Append(CondPath, c))
  \/ r.hasItems /\ \E i \in 1..Len(r.items) : StaleItem(r.items[i])

Stale(k, r) == IF k = "Actor" THEN StaleActor(r) ELSE StaleItem(r)

WalkReturned(p) == pk[p].stat \in {"restoring", "restored", "restoreFailed"}
PackWrites(p) == {w.pos[3] : w \in {x \in writes : x.pos[1] = 4 /\ x.pos[2] = p}}

\* C2: a host write is issued for an entity only if its patch has a key, and
\* the walk of a pack that holds one stale entry and one already migrated
\* entry makes exactly one updateEntity call, for the stale entry.
C2_EmptinessGate ==
  /\ \A w \in writes : w.nonempty
  /\ \A p \in 1..Len(packs) :
       (/\ WalkReturned(p)
        /\ packs[p].entity \in {"Actor", "Item"}
        /\ Len(pk[p].given) = 2) =>
         \A e \in 1..2 :
           (Stale(packs[p].entity, pk[p].given[e])
              /\ ~Stale(packs[p].entity, pk[p].given[3 - e]))
             => PackWrites(p) = {e}

\* The part of C2 the code keeps: every write call carries a patch with a key.
WritesHaveKeys == \A w \in writes : w.nonempty

\* the positions of the records of the world and of the entries of the
\* packs migrateWorld walks
WorldPositions == UNION {{<<TierNo(t), i, 0>> : i \in 1..Len(world[t])} : t \in Tiers}
PackPositions ==
  UNION {{<<4, p, e>> : e \in 1..Len(pk[p].given)} :
           p \in {q \in 1..Len(packs) : Eligible(packs[q])}}

\* the processed records and entries whose patch function throws
Throwers ==
  UNION {{<<TierNo(t), i, 0>> : i \in {j \in 1..Len(world[t]) :
            Migrate(t, world[t][j]).st # "ok"}} : t \in Tiers}
  \cup UNION {{<<4, p, e>> : e \in {j \in 1..Len(pk[p].given) :
                  Migrate(packs[p].entity, pk[p].given[j]).st # "ok"}} :
                p \in {q \in 1..Len(packs) : Eligible(packs[q])}}

\* C3: a failure of computing or submitting the patch of one entity or pack
\* entry is caught and logged and never ends the run: the run ends early
\* only on a failed configure, migrate or getContent call of a pack, every
\* record of the world is processed before the packs are, and a run that
\* reaches its end has processed every record and every entry.
C3_FailureIsolation ==
  /\ errors \subseteq visited
  /\ Throwers \cap visited \subseteq errors
  /\ pc = "failed" => ppc \in {"unlocking", "migrating", "fetching"}
  /\ pc \in {"Pack", "done", "failed"} => WorldPositions \subseteq visited
  /\ pc = "done" => visited = WorldPositions \cup PackPositions

\* a failure was logged for an entity and a later entity of the same
\* collection was written afterwards, in a run that reached its end
C3_Witness ==
  /\ pc = "done"
  /\ \E e \in errors : \E w \in writes :
       /\ w.pos[1] = e[1]
       /\ e[1] = 4 => w.pos[2] = e[2]
       /\ Before(e, w.pos) /\ e # w.pos

LockName(b) == IF b THEN "locked" ELSE "unlocked"

\* C4 as claimed: once a run that walked a pack is over and no restoring call
\* is in flight, the pack's lock state is the one it had before the run,
\* whatever happened to its entries and to its migrate and getContent calls.
C4_LockAlwaysRestored ==
  (Ended /\ \A c \in inflight : c.op # "restore") =>
    \A p \in 1..Len(packs) :
      pk[p].stat \notin {"pending", "skipped"} => packs[p].locked = pk[p].orig

\* C4 as amended: a pack is unlocked while its contents are migrated; when
\* its configure, migrate and getContent calls succeed, a configure call with
\* the locked value read on entry is issued after the last entry, whatever
\* happened to the entries, and once the host has applied it the pack's lock
\* state is the one it had before the run; when one of the three calls
\* throws, no restoring call is issued.
C4_RestoreIssued ==
  \A p \in 1..Len(packs) :
    /\ (pc = "Pack" /\ idx = p /\ ppc \in {"migrating", "fetching", "entries"})
         => ~packs[p].locked
    /\ WalkReturned(p) => pk[p].issued = LockName(pk[p].orig)
    /\ pk[p].stat = "restored" => packs[p].locked = pk[p].orig
    /\ pk[p].stat \notin {"restoring", "restored", "restoreFailed"}
         => pk[p].issued = "none"
    /\ (pc = "done" /\ Eligible(packs[p])) => WalkReturned(p)

\* a locked pack, one of whose entries failed, is locked again
C4_Witness ==
  \E p \in 1..Len(packs) :
    /\ pk[p].orig /\ pk[p].stat = "restored" /\ packs[p].locked
    /\ \E e \in errors : e[1] = 4 /\ e[2] = p

\* The part of C10 the code keeps: the host calls are issued in the order
\* Actors, Items, Scenes, packs, each in collection order, and the setting
\* is written last.
CallsInOrder ==
  /\ inOrder
  /\ (settings = "current" \/ \E c \in inflight : c.op = "settings") => pc = "done"

\* C10: at most one host call is in flight at any time, the calls are issued
\* in the order Actors, Items, Scenes, packs, each in collection order, and
\* the systemMigrationVersion setting is written only when every write and
\* every pack walk, its lock restoration included, has completed.
C10_Sequential ==
  /\ Cardinality(inflight) <= 1
  /\ inOrder
  /\ (settings = "current" \/ \E c \in inflight : c.op = "settings")
       => \A c \in inflight : c.op = "settings"
====
